---- MODULE Spec2Model ----
(***************************************************************************)
(* Model of the MetricCore analytics library (src/metrics): the equity     *)
(* curve builder, the drawdown series, the drawdown episode scan, the      *)
(* maximum-drawdown lookup and the streak analyser.                        *)
(*                                                                         *)
(* Python indices are 0-based and are kept 0-based in every index-valued   *)
(* field (start_idx, end_idx, idx ...); row i of a DataFrame is element    *)
(* i + 1 of the sequence that models it.  Python's None is the empty       *)
(* sequence and a present value x is <<x>>.  Balances are floats holding   *)
(* small integers exactly; a float quotient is an exact fraction           *)
(* [n, d] with d >= 0, where d = 0 encodes the IEEE results of a division  *)
(* by zero: n < 0 is -inf, n > 0 is +inf and n = 0 is NaN.                 *)
(***************************************************************************)
EXTENDS Integers, Sequences, FiniteSets, TLC

VARIABLES df, starting_balance, pc, dd_series, idx, in_drawdown,
          current_period, periods, max_dd, avg_dd, uw_time,
          win_streak, loss_streak, streak_dist,
          tie_order, equity, resampled, dur_stats,
          recovery, calmar, sharpe, sortino, raw_data, log, rates,
          heap, refs

vars == <<df, starting_balance, pc, dd_series, idx, in_drawdown,
          current_period, periods, max_dd, avg_dd, uw_time,
          win_streak, loss_streak, streak_dist,
          tie_order, equity, resampled, dur_stats,
          recovery, calmar, sharpe, sortino, raw_data, log, rates,
          heap, refs>>

eqVars == <<equity, resampled>>
ratioVars == <<recovery, calmar, sharpe, sortino>>
logVars == <<raw_data, log>>
callVars == <<heap, refs>>
extVars == <<tie_order, eqVars, ratioVars, logVars, dur_stats, rates, callVars>>

(* ------------------------------ bounds --------------------------------- *)
MaxLen == 5
PnlValues == {-2, -1, 0, 1, 2}
StartingBalances == {-2, 0, 1, 10}

(* ------------------------------ helpers -------------------------------- *)
None == <<>>
Some(x) == <<x>>

Abs(x) == IF x < 0 THEN -x ELSE x
Sign(x) == IF x < 0 THEN -1 ELSE IF x > 0 THEN 1 ELSE 0

RECURSIVE Gcd(_, _)
Gcd(a, b) == IF b = 0 THEN a ELSE Gcd(b, a % b)

(* a / b on floats: exact fraction in lowest terms, IEEE on b = 0 *)
FDiv(a, b) ==
    IF b = 0 THEN [n |-> Sign(a), d |-> 0]
    ELSE LET g == Gcd(Abs(a), Abs(b))
         IN  [n |-> (Sign(b) * a) \div g, d |-> Abs(b) \div g]

(* x * k for a float x and an integer k > 0 *)
FScale(x, k) == IF x.d = 0 THEN x ELSE FDiv(x.n * k, x.d)

FZero == [n |-> 0, d |-> 1]
IsNaN(x) == x.d = 0 /\ x.n = 0
FLt(x, y) ==
    /\ ~IsNaN(x)
    /\ ~IsNaN(y)
    /\ IF x.d = 0 /\ y.d = 0 THEN x.n < y.n ELSE x.n * y.d < y.n * x.d
FEq(x, y) == ~IsNaN(x) /\ ~IsNaN(y) /\ x = y
FLe(x, y) == FLt(x, y) \/ FEq(x, y)
FAbs(x) == [n |-> Abs(x.n), d |-> x.d]

RECURSIVE SeqsUpTo(_, _)
SeqsUpTo(S, k) ==
    IF k = 0 THEN {<<>>}
    ELSE LET prev == SeqsUpTo(S, k - 1)
         IN  prev \cup {Append(s, x) : s \in {t \in prev : Len(t) = k - 1}, x \in S}

(* a validated trade collection: trade i (0-based) exits at time i *)
TradesOf(pnls) == [i \in 1..Len(pnls) |-> [timestamp_exit |-> i - 1, pnl |-> pnls[i]]]

(* ------------------------- equity curve builder ------------------------ *)
(* df.sort_values("timestamp_exit") sorts with kind='quicksort', which     *)
(* does not promise the order of rows with equal keys: the build's        *)
(* argsort either keeps them in input order (insertion sort on a short    *)
(* array) or not (a vectorised sorting network).  tie_order is what the   *)
(* build does; it is the same for every call of a run.                    *)
TieOrders == {"kept", "reversed"}

GoesAfter(last, r) ==
    IF tie_order = "kept"
    THEN last.timestamp_exit <= r.timestamp_exit
    ELSE last.timestamp_exit < r.timestamp_exit

RECURSIVE InsertByExit(_, _)
InsertByExit(s, r) ==
    IF s = <<>> THEN <<r>>
    ELSE IF GoesAfter(s[Len(s)], r) THEN Append(s, r)
    ELSE Append(InsertByExit(SubSeq(s, 1, Len(s) - 1), r), s[Len(s)])

RECURSIVE SortValues(_)
SortValues(s) ==
    IF s = <<>> THEN <<>>
    ELSE InsertByExit(SortValues(SubSeq(s, 1, Len(s) - 1)), s[Len(s)])

RECURSIVE CumSum_shifted(_, _)
CumSum_shifted(s, i) == IF i <= 1 THEN 0 ELSE CumSum_shifted(s, i - 1) + s[i - 1].pnl

RECURSIVE CumSum(_, _)
CumSum(s, i) == IF i = 0 THEN 0 ELSE CumSum(s, i - 1) + s[i].pnl

to_equity_curve(d, sb) ==
    LET df_sorted == SortValues(d)
        balance(i) == sb + CumSum(df_sorted, i)
        prev_balance(i) == sb + CumSum(df_sorted, i - 1)
    IN  [i \in 1..Len(df_sorted) |->
            [timestamp |-> df_sorted[i].timestamp_exit,
             balance   |-> balance(i),
             pnl       |-> df_sorted[i].pnl,
             returns   |-> FScale(FDiv(df_sorted[i].pnl, prev_balance(i)), 100)]]

(* -------------------------- drawdown series ---------------------------- *)
CumMax_window(ec, i) ==
    IF i = 1 THEN ec[1].balance
    ELSE IF ec[i].balance > ec[i - 1].balance THEN ec[i].balance ELSE ec[i - 1].balance

RECURSIVE CumMax(_, _)
CumMax(ec, i) ==
    IF i = 1 THEN ec[1].balance
    ELSE LET m == CumMax(ec, i - 1)
         IN  IF ec[i].balance > m THEN ec[i].balance ELSE m

Underwater(balance, peak) == balance < peak

calculate_drawdown_series(ec) ==
    [i \in 1..Len(ec) |->
        LET peak == CumMax(ec, i)
            drawdown == ec[i].balance - peak
        IN  [timestamp    |-> ec[i].timestamp,
             balance      |-> ec[i].balance,
             pnl          |-> ec[i].pnl,
             returns      |-> ec[i].returns,
             peak         |-> peak,
             drawdown     |-> drawdown,
             drawdown_pct |-> FScale(FDiv(drawdown, peak), 100),
             underwater   |-> Underwater(ec[i].balance, peak)]]

EquityCurve == to_equity_curve(df, starting_balance)

(* ---------------------- drawdown episode scan -------------------------- *)
OpenPeriod(i, row) ==
    [start_idx        |-> i,
     start_date       |-> row.timestamp,
     peak_balance     |-> row.peak,
     trough_balance   |-> row.balance,
     max_drawdown     |-> row.drawdown,
     max_drawdown_pct |-> row.drawdown_pct]

IsWorse_better(row, cp) == row.drawdown > cp.max_drawdown

IsWorse(row, cp) == row.drawdown < cp.max_drawdown

UpdatePeriod(cp, row) ==
    IF IsWorse(row, cp)
    THEN [cp EXCEPT !.max_drawdown = row.drawdown,
                    !.max_drawdown_pct = row.drawdown_pct,
                    !.trough_balance = row.balance]
    ELSE cp

Finish(cp, end_idx, end_date, duration, recovered) ==
    [start_idx        |-> cp.start_idx,
     start_date       |-> cp.start_date,
     peak_balance     |-> cp.peak_balance,
     trough_balance   |-> cp.trough_balance,
     max_drawdown     |-> cp.max_drawdown,
     max_drawdown_pct |-> cp.max_drawdown_pct,
     end_idx          |-> end_idx,
     end_date         |-> end_date,
     duration         |-> duration,
     recovered        |-> recovered]

ClosePeriod_inclusive(cp, i, row) ==
    Finish(cp, Some(i), Some(row.timestamp), i - cp.start_idx + 1, TRUE)

ClosePeriod(cp, i, row) ==
    Finish(cp, Some(i), Some(row.timestamp), i - cp.start_idx, TRUE)

OngoingPeriod_closed(cp, n) ==
    Finish(cp, Some(n - 1), None, n - cp.start_idx, TRUE)

OngoingPeriod_lastidx(cp, n) ==
    Finish(cp, None, None, (n - 1) - cp.start_idx, FALSE)

OngoingPeriod(cp, n) ==
    Finish(cp, None, None, n - cp.start_idx, FALSE)

Row == dd_series[idx + 1]

ddResults == <<max_dd, avg_dd, uw_time>>
streakResults == <<win_streak, loss_streak, streak_dist>>
scanVars == <<idx, in_drawdown, current_period, periods>>

(* identify_drawdown_periods, entry: the series and the scan's locals.     *)
(* Line 81 of the source reads `current_period: = None`, an annotation    *)
(* that lost its type; it is read as the assignment current_period = None *)
IdentifyStart ==
    /\ pc = "identify"
    /\ dd_series' = calculate_drawdown_series(EquityCurve)
    /\ periods' = <<>>
    /\ in_drawdown' = FALSE
    /\ current_period' = None
    /\ idx' = 0
    /\ pc' = "scan"
    /\ UNCHANGED <<df, starting_balance, extVars, ddResults, streakResults>>

ScanOpen ==
    /\ pc = "scan"
    /\ idx < Len(dd_series)
    /\ Row.underwater /\ ~in_drawdown
    /\ in_drawdown' = TRUE
    /\ current_period' = Some(OpenPeriod(idx, Row))
    /\ idx' = idx + 1
    /\ UNCHANGED <<df, starting_balance, extVars, pc, dd_series, periods, ddResults, streakResults>>

ScanContinue ==
    /\ pc = "scan"
    /\ idx < Len(dd_series)
    /\ Row.underwater /\ in_drawdown
    /\ current_period' = Some(UpdatePeriod(current_period[1], Row))
    /\ idx' = idx + 1
    /\ UNCHANGED <<df, starting_balance, extVars, pc, dd_series, in_drawdown, periods, ddResults, streakResults>>

ScanClose ==
    /\ pc = "scan"
    /\ idx < Len(dd_series)
    /\ ~Row.underwater /\ in_drawdown
    /\ in_drawdown' = FALSE
    /\ periods' = Append(periods, ClosePeriod(current_period[1], idx, Row))
    /\ current_period' = None
    /\ idx' = idx + 1
    /\ UNCHANGED <<df, starting_balance, extVars, pc, dd_series, ddResults, streakResults>>

ScanSkip ==
    /\ pc = "scan"
    /\ idx < Len(dd_series)
    /\ ~Row.underwater /\ ~in_drawdown
    /\ idx' = idx + 1
    /\ UNCHANGED <<df, starting_balance, extVars, pc, dd_series, in_drawdown, current_period, periods, ddResults, streakResults>>

StillInDrawdown == in_drawdown /\ current_period # None

ScanEnd ==
    /\ pc = "scan"
    /\ idx = Len(dd_series)
    /\ periods' = IF StillInDrawdown
                  THEN Append(periods, OngoingPeriod(current_period[1], Len(dd_series)))
                  ELSE periods
    /\ pc' = "maximum_drawdown"
    /\ UNCHANGED <<df, starting_balance, extVars, dd_series, idx, in_drawdown, current_period, ddResults, streakResults>>

(* --------------------------- maximum_drawdown -------------------------- *)
Indices(dd) == 0..(Len(dd) - 1)
SetMin(S) == CHOOSE x \in S : \A y \in S : x <= y
SetMax(S) == CHOOSE x \in S : \A y \in S : x >= y

(* Series.idxmin(): first label of the minimum over the non-NaN values;   *)
(* None stands for the call raising (empty series, or nothing but NaN)    *)
IdxMin_amount(dd) ==
    LET least == {i \in Indices(dd) : \A j \in Indices(dd) :
                      dd[i + 1].drawdown <= dd[j + 1].drawdown}
    IN  IF least = {} THEN None ELSE Some(SetMin(least))

IdxMin(dd) ==
    LET valid == {i \in Indices(dd) : ~IsNaN(dd[i + 1].drawdown_pct)}
        least == {i \in valid : \A j \in valid :
                      FLe(dd[i + 1].drawdown_pct, dd[j + 1].drawdown_pct)}
    IN  IF valid = {} THEN None ELSE Some(SetMin(least))

PeakMask(dd, max_dd_idx) ==
    {i \in Indices(dd) : i < max_dd_idx /\ dd[i + 1].balance = dd[max_dd_idx + 1].peak}

RecoveryMask(dd, max_dd_idx) ==
    {i \in Indices(dd) : i > max_dd_idx /\ dd[i + 1].balance >= dd[max_dd_idx + 1].peak}

maximum_drawdown(ec) ==
    LET dd == calculate_drawdown_series(ec)
        found == IdxMin(dd)
    IN  IF found = None THEN [status |-> "raise"]
        ELSE
        LET max_dd_idx == found[1]
            max_dd_row == dd[max_dd_idx + 1]
            peak_mask == PeakMask(dd, max_dd_idx)
            peak_idx == IF peak_mask # {} THEN SetMax(peak_mask) ELSE 0
            peak_row == dd[peak_idx + 1]
            recovery_mask == RecoveryMask(dd, max_dd_idx)
            recovered == recovery_mask # {}
            recovery_idx == SetMin(recovery_mask)
        IN  [status                |-> "ok",
             max_drawdown_pct      |-> max_dd_row.drawdown_pct,
             max_drawdown_amount   |-> max_dd_row.drawdown,
             peak_balance          |-> max_dd_row.peak,
             trough_balance        |-> max_dd_row.balance,
             peak_date             |-> Some(peak_row.timestamp),
             trough_date           |-> Some(max_dd_row.timestamp),
             recovery_date         |-> IF recovered THEN Some(dd[recovery_idx + 1].timestamp) ELSE None,
             duration_to_trough    |-> max_dd_idx - peak_idx,
             duration_to_recovery  |-> IF recovered THEN Some(recovery_idx - peak_idx) ELSE None,
             currently_in_drawdown |-> ~recovered]

MaximumDrawdown ==
    /\ pc = "maximum_drawdown"
    /\ max_dd' = Some(maximum_drawdown(EquityCurve))
    /\ pc' = "average_drawdown"
    /\ UNCHANGED <<df, starting_balance, extVars, dd_series, scanVars, avg_dd, uw_time, streakResults>>

(* --------------------------- average_drawdown -------------------------- *)
FAdd(x, y) ==
    IF IsNaN(x) \/ IsNaN(y) THEN [n |-> 0, d |-> 0]
    ELSE IF x.d = 0 /\ y.d = 0 THEN (IF x.n = y.n THEN x ELSE [n |-> 0, d |-> 0])
    ELSE IF x.d = 0 THEN x
    ELSE IF y.d = 0 THEN y
    ELSE LET g == Gcd(x.d, y.d)
         IN  FDiv(x.n * (y.d \div g) + y.n * (x.d \div g), (x.d \div g) * y.d)

FNaN == [n |-> 0, d |-> 0]
FInt(k) == [n |-> k, d |-> 1]
FNeg(x) == [n |-> -x.n, d |-> x.d]
FSub(x, y) == FAdd(x, FNeg(y))
FMul(x, y) ==
    IF IsNaN(x) \/ IsNaN(y) THEN FNaN
    ELSE IF x.d = 0 \/ y.d = 0
         THEN [n |-> Sign(x.n) * Sign(y.n), d |-> 0]
    ELSE FDiv(x.n * y.n, x.d * y.d)
(* x / y; the sign of a zero is taken as positive *)
FQuot(x, y) ==
    IF IsNaN(x) \/ IsNaN(y) THEN FNaN
    ELSE IF y.d = 0 THEN (IF x.d = 0 THEN FNaN ELSE FZero)
    ELSE IF x.d = 0 THEN [n |-> x.n * (IF y.n < 0 THEN -1 ELSE 1), d |-> 0]
    ELSE IF y.n = 0 THEN [n |-> Sign(x.n), d |-> 0]
    ELSE FDiv(x.n * y.d, x.d * y.n)

RECURSIVE SumAbsPct(_, _)
SumAbsPct(ps, k) ==
    IF k = 0 THEN FZero ELSE FAdd(SumAbsPct(ps, k - 1), FAbs(ps[k].max_drawdown_pct))

(* the episode list is the one identify_drawdown_periods returned for the *)
(* same curve                                                              *)
average_drawdown(ps) ==
    IF ps = <<>> THEN FZero
    ELSE LET total == SumAbsPct(ps, Len(ps))
         IN  IF total.d = 0 THEN total ELSE FDiv(total.n, total.d * Len(ps))

AverageDrawdown ==
    /\ pc = "average_drawdown"
    /\ avg_dd' = Some(average_drawdown(periods))
    /\ pc' = "underwater_time"
    /\ UNCHANGED <<df, starting_balance, extVars, dd_series, scanVars, max_dd, uw_time, streakResults>>

(* ---------------------------- underwater_time -------------------------- *)
underwater_time(ec) ==
    LET dd == calculate_drawdown_series(ec)
        underwater_trades == Cardinality({i \in Indices(dd) : dd[i + 1].underwater})
        total_trades == Len(dd)
    IN  [underwater_trades |-> underwater_trades,
         total_trades      |-> total_trades,
         underwater_pct    |-> IF total_trades > 0
                               THEN FScale(FDiv(underwater_trades, total_trades), 100)
                               ELSE FZero]

UnderwaterTime ==
    /\ pc = "underwater_time"
    /\ uw_time' = Some(underwater_time(EquityCurve))
    /\ pc' = "drawdown_duration_stats"
    /\ UNCHANGED <<df, starting_balance, extVars, dd_series, scanVars, max_dd, avg_dd, streakResults>>

(* ------------------------ drawdown_duration_stats ---------------------- *)
RECURSIVE InsertInt(_, _)
InsertInt(q, x) ==
    IF q = <<>> THEN <<x>>
    ELSE IF q[Len(q)] <= x THEN Append(q, x)
    ELSE Append(InsertInt(SubSeq(q, 1, Len(q) - 1), x), q[Len(q)])

RECURSIVE SortInts(_)
SortInts(q) ==
    IF q = <<>> THEN <<>> ELSE InsertInt(SortInts(SubSeq(q, 1, Len(q) - 1)), q[Len(q)])

RECURSIVE SumInts(_)
SumInts(q) == IF q = <<>> THEN 0 ELSE q[Len(q)] + SumInts(SubSeq(q, 1, Len(q) - 1))

Mean(q) == FDiv(SumInts(q), Len(q))
Median(q) ==
    LET o == SortInts(q)
        h == Len(q) \div 2
    IN  IF Len(q) % 2 = 1 THEN FInt(o[h + 1]) ELSE FDiv(o[h] + o[h + 1], 2)

drawdown_duration_stats_first(ps) ==
    IF ps = <<>>
    THEN [avg_duration |-> FZero, max_duration |-> 0, median_duration |-> FZero,
          total_periods |-> 0, currently_underwater |-> FALSE]
    ELSE LET durations == [k \in 1..Len(ps) |-> ps[k].duration]
         IN  [avg_duration         |-> Mean(durations),
              max_duration         |-> SetMax({durations[k] : k \in 1..Len(ps)}),
              median_duration      |-> Median(durations),
              total_periods        |-> Len(ps),
              currently_underwater |-> ~ps[1].recovered]

(* the episode list is the one identify_drawdown_periods returned for the *)
(* same curve                                                              *)
drawdown_duration_stats(ps) ==
    IF ps = <<>>
    THEN [avg_duration |-> FZero, max_duration |-> 0, median_duration |-> FZero,
          total_periods |-> 0, currently_underwater |-> FALSE]
    ELSE LET durations == [k \in 1..Len(ps) |-> ps[k].duration]
         IN  [avg_duration         |-> Mean(durations),
              max_duration         |-> SetMax({durations[k] : k \in 1..Len(ps)}),
              median_duration      |-> Median(durations),
              total_periods        |-> Len(ps),
              currently_underwater |-> ~ps[Len(ps)].recovered]

DrawdownDurationStats ==
    /\ pc = "drawdown_duration_stats"
    /\ dur_stats' = Some(drawdown_duration_stats(periods))
    /\ pc' = "recovery_factor"
    /\ UNCHANGED <<df, starting_balance, tie_order, eqVars, ratioVars, logVars, rates,
                   callVars, dd_series, scanVars, ddResults, streakResults>>

(* ------------------------------- ratios -------------------------------- *)
(* The ratios are called with their default risk_free_rate = 0.0 and      *)
(* periods_per_year = 252, so the per-period risk-free rate is            *)
(* (1 + 0) ** (1 / 252) - 1 = 0.0.  np.sqrt and ** have no exact          *)
(* fraction: a result that goes through them is kept as its class (nan,   *)
(* -inf, neg, zero, pos, +inf) next to the operands it was formed from.   *)
PeriodsPerYear == 252
FInf == [n |-> 1, d |-> 0]
FClass(x) ==
    IF IsNaN(x) THEN "nan"
    ELSE IF x.d = 0 THEN (IF x.n < 0 THEN "-inf" ELSE "+inf")
    ELSE IF x.n < 0 THEN "neg" ELSE IF x.n > 0 THEN "pos" ELSE "zero"
ClassIsPositive(c) == c \in {"pos", "+inf"}

(* the class of a / b for classes a and b *)
QuotClass(a, b) ==
    IF a = "nan" \/ b = "nan" THEN "nan"
    ELSE IF b \in {"+inf", "-inf"}
         THEN (IF a \in {"+inf", "-inf"} THEN "nan" ELSE "zero")
    ELSE IF b = "zero"
         THEN (IF a = "zero" THEN "nan"
               ELSE IF a \in {"pos", "+inf"} THEN "+inf" ELSE "-inf")
    ELSE IF a = "zero" THEN "zero"
    ELSE IF a \in {"+inf", "-inf"}
         THEN (IF (a = "+inf") = (b = "pos") THEN "+inf" ELSE "-inf")
    ELSE IF (a = "pos") = (b = "pos") THEN "pos" ELSE "neg"

RECURSIVE FSum(_)
FSum(q) == IF q = <<>> THEN FZero ELSE FAdd(FSum(SubSeq(q, 1, Len(q) - 1)), q[Len(q)])

FMean(q) == FQuot(FSum(q), FInt(Len(q)))
FSubAll(q, x) == [i \in 1..Len(q) |-> FSub(q[i], x)]

(* Series.dropna() *)
NotNaN(x) == ~IsNaN(x)
DropNa(q) == SelectSeq(q, NotNaN)
ReturnsOf(ec) == DropNa([i \in 1..Len(ec) |-> ec[i].returns])

(* the class of Series.std() (ddof = 1) of a series without NaN: one    *)
(* element divides 0 by 0, an infinite element makes its own deviation   *)
(* inf - inf, equal elements have no deviation                           *)
StdClass(q) ==
    IF Len(q) = 1 THEN "nan"
    ELSE IF \E i \in 1..Len(q) : q[i].d = 0 THEN "nan"
    ELSE IF \A i \in 1..Len(q) : q[i] = q[1] THEN "zero"
    ELSE "pos"

(* the class of np.sqrt(np.mean(q ** 2)) for a non-empty q without NaN *)
RootMeanSquareClass(q) ==
    IF \E i \in 1..Len(q) : q[i].d = 0 THEN "+inf"
    ELSE IF \A i \in 1..Len(q) : q[i].n = 0 THEN "zero"
    ELSE "pos"

sharpe_ratio(ec) ==
    IF Len(ec) = 0 THEN [kind |-> "0.0", class |-> "zero"]
    ELSE
    LET returns == ReturnsOf(ec)
    IN  IF Len(returns) = 0 \/ StdClass(returns) = "zero"
        THEN [kind |-> "0.0", class |-> "zero"]
        ELSE
        LET avg_excess_return == FMean(FSubAll(returns, FZero))
            std_excess_return == StdClass(returns)
        IN  [kind |-> "quotient",
             class |-> QuotClass(FClass(avg_excess_return), std_excess_return),
             avg_excess_return |-> avg_excess_return,
             std_excess_return |-> std_excess_return]

Below(q, target) == LET IsBelow(x) == FLt(x, target) IN SelectSeq(q, IsBelow)

InfIfAbove_atleast(mean, target) ==
    IF FLe(target, mean)
    THEN [kind |-> "+inf", class |-> "+inf"]
    ELSE [kind |-> "0.0", class |-> "zero"]

InfIfAbove(mean, target) ==
    IF FLt(target, mean)
    THEN [kind |-> "+inf", class |-> "+inf"]
    ELSE [kind |-> "0.0", class |-> "zero"]

sortino_ratio(ec, target_return) ==
    IF Len(ec) = 0 THEN [kind |-> "0.0", class |-> "zero"]
    ELSE
    LET returns == ReturnsOf(ec)
    IN  IF Len(returns) = 0 THEN [kind |-> "0.0", class |-> "zero"]
        ELSE
        LET target == IF target_return = None THEN FZero ELSE target_return[1]
            downside_returns == Below(returns, target)
            downside_deviation == RootMeanSquareClass(FSubAll(downside_returns, target))
            avg_return == FMean(returns)
        IN  IF Len(downside_returns) = 0 THEN InfIfAbove(avg_return, target)
            ELSE IF downside_deviation = "zero" THEN InfIfAbove(avg_return, target)
            ELSE [kind |-> "quotient",
                  class |-> QuotClass(FClass(FSub(avg_return, target)), downside_deviation),
                  excess |-> FSub(avg_return, target),
                  downside_deviation |-> downside_deviation]

(* the class of (1 + total_return) ** (1 / years) - 1 for a curve of n    *)
(* points: 1 / (n / 252) is a whole number in floating point for          *)
(* n = 1, 2, 3, 4, 6, 7 and is 50.400000000000006 for n = 5; a negative   *)
(* base has a real power only for a whole exponent                        *)
ExponentIsWhole(n) == PeriodsPerYear % n = 0
ExponentIsOdd(n) == ExponentIsWhole(n) /\ (PeriodsPerYear \div n) % 2 = 1

AnnualizedClass(total_return, n) ==
    LET base == FAdd(FInt(1), total_return)
        c == FClass(base)
    IN  IF c = "nan" THEN "nan"
        ELSE IF c = "+inf" THEN "+inf"
        ELSE IF c = "-inf" THEN (IF ExponentIsOdd(n) THEN "-inf" ELSE "+inf")
        ELSE IF c = "zero" THEN "neg"
        ELSE IF c = "pos" THEN FClass(FSub(base, FInt(1)))
        ELSE IF ~ExponentIsWhole(n) THEN "nan"
        ELSE IF ExponentIsOdd(n) THEN "neg"
        ELSE FClass(FSub(FAbs(base), FInt(1)))

calmar_ratio(ec) ==
    IF Len(ec) = 0 THEN [status |-> "ok", kind |-> "0.0", class |-> "zero"]
    ELSE
    LET start == ec[1].balance - ec[1].pnl
        ending_balance == ec[Len(ec)].balance
        total_return == FQuot(FInt(ending_balance - start), FInt(start))
        annualized == AnnualizedClass(total_return, Len(ec))
        dd == maximum_drawdown(ec)
    IN  IF dd.status = "raise" THEN [status |-> "raise"]
        ELSE
        LET max_dd_pct == FAbs(dd.max_drawdown_pct)
        IN  IF FEq(max_dd_pct, FZero)
            THEN (IF ClassIsPositive(annualized)
                  THEN [status |-> "ok", kind |-> "+inf", class |-> "+inf"]
                  ELSE [status |-> "ok", kind |-> "0.0", class |-> "zero"])
            ELSE [status |-> "ok", kind |-> "quotient",
                  class |-> QuotClass(annualized, FClass(max_dd_pct)),
                  total_return |-> total_return,
                  max_dd_pct |-> max_dd_pct]

recovery_factor(ec) ==
    IF Len(ec) = 0 THEN [status |-> "ok", value |-> FZero]
    ELSE
    LET net_profit == SumInts([i \in 1..Len(ec) |-> ec[i].pnl])
        dd == maximum_drawdown(ec)
    IN  IF dd.status = "raise" THEN [status |-> "raise"]
        ELSE
        LET max_dd_amount == Abs(dd.max_drawdown_amount)
        IN  IF max_dd_amount = 0
            THEN [status |-> "ok", value |-> IF net_profit > 0 THEN FInf ELSE FZero]
            ELSE [status |-> "ok", value |-> FDiv(net_profit, max_dd_amount)]

(* target_return as the caller passes it: None (the default) or a number *)
SortinoTargets == {None, Some(FInt(-50)), Some(FInt(50))}

ddPath == <<df, starting_balance, tie_order, eqVars, logVars,
            dd_series, scanVars, ddResults, dur_stats, streakResults, rates, callVars>>

RecoveryFactor ==
    /\ pc = "recovery_factor"
    /\ recovery' = Some(recovery_factor(EquityCurve))
    /\ pc' = "calmar_ratio"
    /\ UNCHANGED <<ddPath, calmar, sharpe, sortino>>

CalmarRatio ==
    /\ pc = "calmar_ratio"
    /\ calmar' = Some(calmar_ratio(EquityCurve))
    /\ pc' = "sharpe_ratio"
    /\ UNCHANGED <<ddPath, recovery, sharpe, sortino>>

SharpeRatio ==
    /\ pc = "sharpe_ratio"
    /\ sharpe' = Some(sharpe_ratio(EquityCurve))
    /\ pc' = "sortino_ratio"
    /\ UNCHANGED <<ddPath, recovery, calmar, sortino>>

SortinoRatio ==
    /\ pc = "sortino_ratio"
    /\ \E target_return \in SortinoTargets :
          sortino' = Some([target_return |-> target_return,
                           result |-> sortino_ratio(EquityCurve, target_return)])
    /\ pc' = "done"
    /\ UNCHANGED <<ddPath, recovery, calmar, sharpe>>

(* ------------------- specification of the drawdown path ---------------- *)
(* the state outside the path a specification follows; the trades of the  *)
(* drawdown and streak paths have distinct exit times, so the order of    *)
(* ties plays no part there                                                *)
ExtInit ==
    /\ tie_order = "kept"
    /\ heap = <<>>
    /\ refs = None
    /\ rates = None
    /\ equity = None
    /\ resampled = None
    /\ dur_stats = None
    /\ recovery = None
    /\ calmar = None
    /\ sharpe = None
    /\ sortino = None
    /\ raw_data = None
    /\ log = None

InitDD ==
    /\ df \in {TradesOf(p) : p \in SeqsUpTo(PnlValues, MaxLen)}
    /\ starting_balance \in StartingBalances
    /\ pc = "identify"
    /\ dd_series = <<>>
    /\ idx = 0
    /\ in_drawdown = FALSE
    /\ current_period = None
    /\ periods = <<>>
    /\ max_dd = None
    /\ avg_dd = None
    /\ uw_time = None
    /\ win_streak = None
    /\ loss_streak = None
    /\ streak_dist = None
    /\ ExtInit

NextDD ==
    \/ IdentifyStart
    \/ ScanOpen
    \/ ScanContinue
    \/ ScanClose
    \/ ScanSkip
    \/ ScanEnd
    \/ MaximumDrawdown
    \/ AverageDrawdown
    \/ UnderwaterTime
    \/ DrawdownDurationStats
    \/ RecoveryFactor
    \/ CalmarRatio
    \/ SharpeRatio
    \/ SortinoRatio

SpecDD == InitDD /\ [][NextDD]_vars

(* ----------------------------- streak analyser ------------------------- *)
DefaultStartingBalance == 10000

RECURSIVE SetToSortedSeq(_)
SetToSortedSeq(S) ==
    IF S = {} THEN <<>>
    ELSE <<SetMin(S)>> \o SetToSortedSeq(S \ {SetMin(S)})

(* _compute_streaks: arr is the boolean series; position k (0-based) of   *)
(* `changes` is True at both ends and where arr[k] != arr[k - 1]          *)
compute_streaks(arr) ==
    IF Len(arr) = 0 THEN <<>>
    ELSE
    LET n == Len(arr)
        changes == {k \in 0..n : k = 0 \/ k = n \/ arr[k + 1] # arr[k]}
        change_indices == SetToSortedSeq(changes)
    IN  [j \in 1..(Len(change_indices) - 1) |->
            [value  |-> arr[change_indices[j] + 1],
             length |-> change_indices[j + 1] - change_indices[j]]]

IsNonZero(t) == t.pnl # 0
Lengths(streaks, v) == {streaks[j].length : j \in {i \in 1..Len(streaks) : streaks[i].value = v}}
MaxOrZero(S) == IF S # {} THEN SetMax(S) ELSE 0

longest_win_streak(d) ==
    IF Len(d) = 0 THEN 0
    ELSE
    LET df_sorted == SortValues(d)
        filtered == SelectSeq(df_sorted, IsNonZero)
    IN  IF Len(filtered) = 0 THEN 0
        ELSE
        LET is_win == [i \in 1..Len(df_sorted) |-> df_sorted[i].pnl > 0]
            streaks == compute_streaks(is_win)
        IN  MaxOrZero(Lengths(streaks, TRUE))

longest_loss_streak_nonwin(d) ==
    IF Len(d) = 0 THEN 0
    ELSE
    LET df_sorted == SortValues(d)
        filtered == SelectSeq(df_sorted, IsNonZero)
    IN  IF Len(filtered) = 0 THEN 0
        ELSE
        LET is_win == [i \in 1..Len(df_sorted) |-> df_sorted[i].pnl > 0]
            streaks == compute_streaks(is_win)
        IN  MaxOrZero(Lengths(streaks, FALSE))

longest_loss_streak(d) ==
    IF Len(d) = 0 THEN 0
    ELSE
    LET df_sorted == SortValues(d)
        filtered == SelectSeq(df_sorted, IsNonZero)
    IN  IF Len(filtered) = 0 THEN 0
        ELSE
        LET is_loss == [i \in 1..Len(df_sorted) |-> df_sorted[i].pnl < 0]
            streaks == compute_streaks(is_loss)
        IN  MaxOrZero(Lengths(streaks, TRUE))

(* Series(lengths).value_counts().to_dict(), then dict(sorted(items)):    *)
(* the (length, count) items in ascending order of length                 *)
ValueCounts(streaks, v) ==
    LET keys == SetToSortedSeq(Lengths(streaks, v))
    IN  [k \in 1..Len(keys) |->
            <<keys[k], Cardinality({j \in 1..Len(streaks) :
                                       streaks[j].value = v /\ streaks[j].length = keys[k]})>>]

streak_distribution(d) ==
    IF Len(d) = 0 THEN [wins |-> <<>>, losses |-> <<>>]
    ELSE
    LET df_sorted == SortValues(d)
        filtered == SelectSeq(df_sorted, IsNonZero)
    IN  IF Len(filtered) = 0 THEN [wins |-> <<>>, losses |-> <<>>]
        ELSE
        LET is_win == [i \in 1..Len(df_sorted) |-> df_sorted[i].pnl > 0]
            streaks == compute_streaks(is_win)
        IN  [wins |-> ValueCounts(streaks, TRUE), losses |-> ValueCounts(streaks, FALSE)]

ddVars == <<dd_series, idx, in_drawdown, current_period, periods, max_dd, avg_dd, uw_time>>

LongestWinStreak ==
    /\ pc = "longest_win_streak"
    /\ win_streak' = Some(longest_win_streak(df))
    /\ pc' = "longest_loss_streak"
    /\ UNCHANGED <<df, starting_balance, extVars, ddVars, loss_streak, streak_dist>>

LongestLossStreak ==
    /\ pc = "longest_loss_streak"
    /\ loss_streak' = Some(longest_loss_streak(df))
    /\ pc' = "streak_distribution"
    /\ UNCHANGED <<df, starting_balance, extVars, ddVars, win_streak, streak_dist>>

StreakDistribution ==
    /\ pc = "streak_distribution"
    /\ streak_dist' = Some(streak_distribution(df))
    /\ pc' = "win_loss_rates"
    /\ UNCHANGED <<df, starting_balance, extVars, ddVars, win_streak, loss_streak>>

IsWin(t) == t.pnl > 0
IsLoss(t) == t.pnl < 0
IsBreakeven(t) == t.pnl = 0

win_rate_nonloss(d) ==
    IF Len(d) = 0 THEN FZero
    ELSE LET winning_trades == Len(d) - Len(SelectSeq(d, IsLoss))
         IN  FDiv(winning_trades, Len(d))

win_rate(d) ==
    IF Len(d) = 0 THEN FZero
    ELSE LET winning_trades == Len(SelectSeq(d, IsWin))
         IN  FDiv(winning_trades, Len(d))

loss_rate(d) ==
    IF Len(d) = 0 THEN FZero
    ELSE LET losing_trades == Len(SelectSeq(d, IsLoss))
         IN  FDiv(losing_trades, Len(d))

breakeven_rate(d) ==
    IF Len(d) = 0 THEN FZero
    ELSE LET breakeven_trades == Len(SelectSeq(d, IsBreakeven))
         IN  FDiv(breakeven_trades, Len(d))

WinLossRates ==
    /\ pc = "win_loss_rates"
    /\ rates' = Some([win_rate |-> win_rate(df),
                      loss_rate |-> loss_rate(df),
                      breakeven_rate |-> breakeven_rate(df)])
    /\ pc' = "streaks_done"
    /\ UNCHANGED <<df, starting_balance, tie_order, eqVars, ratioVars, logVars, dur_stats,
                   callVars, ddVars, streakResults>>

InitStreak ==
    /\ df \in {TradesOf(p) : p \in SeqsUpTo(PnlValues, MaxLen)}
    /\ starting_balance = DefaultStartingBalance
    /\ pc = "longest_win_streak"
    /\ dd_series = <<>>
    /\ idx = 0
    /\ in_drawdown = FALSE
    /\ current_period = None
    /\ periods = <<>>
    /\ max_dd = None
    /\ avg_dd = None
    /\ uw_time = None
    /\ win_streak = None
    /\ loss_streak = None
    /\ streak_dist = None
    /\ ExtInit

NextStreak ==
    \/ LongestWinStreak
    \/ LongestLossStreak
    \/ StreakDistribution
    \/ WinLossRates

SpecStreak == InitStreak /\ [][NextStreak]_vars


(* ------------------------------- TradeLog ------------------------------ *)
(* A DataFrame is its set of columns and its rows in index order; a row   *)
(* is a function from the columns to cell values.  A cell is None for a   *)
(* missing value (NaN / NaT) and Some(v) otherwise; a string is the       *)
(* sequence of its characters, so that strip() and lower() are computed.  *)
(* Column names are given without surrounding whitespace.                  *)
REQUIRED_COLUMNS == <<"timestamp_entry", "timestamp_exit", "symbol", "direction", "size", "pnl">>
VALID_DIRECTIONS == {<<"L", "O", "N", "G">>, <<"S", "H", "O", "R", "T">>}
RequiredSet == {REQUIRED_COLUMNS[k] : k \in 1..Len(REQUIRED_COLUMNS)}

MaxRows == 2
(* timestamps are whole days; this value stands for a cell whose text     *)
(* pd.to_datetime cannot parse                                             *)
Unparseable == -1
EntryCells == {Some(1)}
ExitCells == {None, Some(0), Some(1), Some(Unparseable)}
SymbolCells == {None, Some(<<" ", "E", "U", "R">>)}
DirectionCells == {None, Some(<<"l", "o", "n", "g">>), Some(<<"S", "h", "o", "r", "t">>),
                   Some(<<"b", "u", "y">>)}
SizeCells == {Some(0), Some(1)}
PnlCells == {Some(1)}

LogRows ==
    [timestamp_entry : EntryCells, timestamp_exit : ExitCells, symbol : SymbolCells,
     direction : DirectionCells, size : SizeCells, pnl : PnlCells]

Restrict(row, columns) == [c \in columns |-> row[c]]
Frame(columns, rows) ==
    [kind |-> "DataFrame", columns |-> columns,
     rows |-> [i \in 1..Len(rows) |-> Restrict(rows[i], columns)]]

(* the values TradeLog is constructed with: frames with every required    *)
(* column, frames of at most one row that lack one column, and a value    *)
(* that is neither a path nor a DataFrame                                  *)
LogInputs ==
    {Frame(RequiredSet, rows) : rows \in SeqsUpTo(LogRows, MaxRows)}
    \cup {Frame(RequiredSet \ {c}, rows) : c \in RequiredSet, rows \in SeqsUpTo(LogRows, 1)}
    \cup {[kind |-> "int"]}

(* str.lower() and str.strip() *)
UpperToLower ==
    [c \in {"L", "O", "N", "G", "S", "H", "R", "T", "E", "U"} |->
        CASE c = "L" -> "l" [] c = "O" -> "o" [] c = "N" -> "n" [] c = "G" -> "g"
          [] c = "S" -> "s" [] c = "H" -> "h" [] c = "R" -> "r" [] c = "T" -> "t"
          [] c = "E" -> "e" [] c = "U" -> "u"]
LowerChar(c) == IF c \in DOMAIN UpperToLower THEN UpperToLower[c] ELSE c
Lower(str) == [k \in 1..Len(str) |-> LowerChar(str[k])]

RECURSIVE Strip(_)
Strip(str) ==
    IF str = <<>> THEN str
    ELSE IF str[1] = " " THEN Strip(Tail(str))
    ELSE IF str[Len(str)] = " " THEN Strip(SubSeq(str, 1, Len(str) - 1))
    ELSE str

(* Series.astype(str) on a cell: a missing value becomes the text "nan" *)
AsStr(cell) == IF cell = None THEN <<"n", "a", "n">> ELSE cell[1]

ParseFails(frame, col) ==
    /\ col \in frame.columns
    /\ \E i \in 1..Len(frame.rows) : frame.rows[i][col] = Some(Unparseable)

LoadCell(col, cell) ==
    IF col = "direction" THEN Some(Lower(Strip(AsStr(cell))))
    ELSE IF col = "symbol" THEN Some(Strip(AsStr(cell)))
    ELSE cell

LoadDtype(col) ==
    IF col \in {"timestamp_entry", "timestamp_exit"} THEN "datetime64"
    ELSE IF col \in {"size", "pnl"} THEN "float64"
    ELSE "object"

load_data(data) ==
    IF data.kind # "DataFrame" THEN [status |-> "raise", error |-> "invalid data type"]
    ELSE IF ParseFails(data, "timestamp_entry")
    THEN [status |-> "raise", error |-> "parse timestamp_entry"]
    ELSE IF ParseFails(data, "timestamp_exit")
    THEN [status |-> "raise", error |-> "parse timestamp_exit"]
    ELSE [status |-> "loaded",
          df |-> [columns |-> data.columns,
                  dtypes |-> [c \in data.columns |-> LoadDtype(c)],
                  rows |-> [i \in 1..Len(data.rows) |->
                              [c \in data.columns |-> LoadCell(c, data.rows[i][c])]]]]

HasNaN(d, col) == \E i \in 1..Len(d.rows) : d.rows[i][col] = None
NaNColumns(d) == {k \in 1..Len(REQUIRED_COLUMNS) : HasNaN(d, REQUIRED_COLUMNS[k])}
NotDatetime(d) ==
    {c \in {"timestamp_entry", "timestamp_exit"} : d.dtypes[c] # "datetime64"}
NotNumeric(d) == {c \in {"pnl", "size"} : d.dtypes[c] # "float64"}

Raise(error) == [status |-> "raise", error |-> error]

validate(d) ==
    IF Len(d.rows) = 0 \/ d.columns = {} THEN Raise("empty")
    ELSE IF RequiredSet \ d.columns # {} THEN Raise("missing columns")
    ELSE IF NaNColumns(d) # {} THEN Raise("NaN")
    ELSE IF NotDatetime(d) # {} THEN Raise("datetime type")
    ELSE IF \E i \in 1..Len(d.rows) :
                d.rows[i].timestamp_exit[1] < d.rows[i].timestamp_entry[1]
    THEN Raise("exit before entry")
    ELSE IF \E i \in 1..Len(d.rows) : d.rows[i].direction[1] \notin VALID_DIRECTIONS
    THEN Raise("direction")
    ELSE IF NotNumeric(d) # {} THEN Raise("numeric type")
    ELSE IF \E i \in 1..Len(d.rows) : d.rows[i].size[1] <= 0 THEN Raise("size")
    ELSE [status |-> "ok", df |-> d]

logPath == <<df, starting_balance, tie_order, eqVars, ratioVars, dur_stats, rates,
             ddVars, streakResults, callVars>>

(* TradeLog.__init__: self.raw_data = data, self.df = None *)
Construct ==
    /\ pc = "init"
    /\ \E data \in LogInputs : raw_data' = Some(data)
    /\ log' = None
    /\ pc' = "load_data"
    /\ UNCHANGED logPath

LoadData ==
    /\ pc = "load_data"
    /\ log' = Some(load_data(raw_data[1]))
    /\ pc' = IF load_data(raw_data[1]).status = "raise" THEN "log_done" ELSE "validate"
    /\ UNCHANGED <<logPath, raw_data>>

Validate ==
    /\ pc = "validate"
    /\ log' = Some(validate(log[1].df))
    /\ pc' = "log_done"
    /\ UNCHANGED <<logPath, raw_data>>

InitLog ==
    /\ df = <<>>
    /\ starting_balance = DefaultStartingBalance
    /\ pc = "init"
    /\ dd_series = <<>>
    /\ idx = 0
    /\ in_drawdown = FALSE
    /\ current_period = None
    /\ periods = <<>>
    /\ max_dd = None
    /\ avg_dd = None
    /\ uw_time = None
    /\ win_streak = None
    /\ loss_streak = None
    /\ streak_dist = None
    /\ ExtInit

NextLog ==
    \/ Construct
    \/ LoadData
    \/ Validate

SpecLog == InitLog /\ [][NextLog]_vars

(* ------------------- equity curve and its resampling ------------------- *)
MaxTrades == 3
EqTimes == {0, 1, 2, 5}
EqPnl == {-1, 0, 2}

(* the period (freq "D": the calendar day) a timestamp falls in; a day is *)
(* two time units long                                                     *)
PeriodOf(t) == t \div 2
PeriodStart(p) == p * 2

RowsIn(ec, p) == {i \in 1..Len(ec) : PeriodOf(ec[i].timestamp) = p}

RECURSIVE SumPnl(_, _)
SumPnl(ec, I) ==
    IF I = {} THEN 0
    ELSE LET i == SetMin(I) IN ec[i].pnl + SumPnl(ec, I \ {i})

(* ((1 + x/100).prod() - 1) * 100 over the rows of a period *)
RECURSIVE GrowthProd(_, _)
GrowthProd(ec, I) ==
    IF I = {} THEN FInt(1)
    ELSE LET i == SetMin(I)
         IN  FMul(FAdd(FInt(1), FQuot(ec[i].returns, FInt(100))), GrowthProd(ec, I \ {i}))

LastBalance_first(ec, p) ==
    IF RowsIn(ec, p) = {} THEN None ELSE Some(ec[SetMin(RowsIn(ec, p))].balance)

(* "last" of a period; None is the NaN of a period without rows *)
LastBalance(ec, p) ==
    IF RowsIn(ec, p) = {} THEN None ELSE Some(ec[SetMax(RowsIn(ec, p))].balance)

(* Series.ffill over the periods first..p *)
RECURSIVE FFill(_, _, _)
FFill(ec, first, p) ==
    IF LastBalance(ec, p) # None \/ p = first THEN LastBalance(ec, p)
    ELSE FFill(ec, first, p - 1)

resample_equity_curve(ec) ==
    IF Len(ec) = 0 THEN ec
    ELSE
    LET first == SetMin({PeriodOf(ec[i].timestamp) : i \in 1..Len(ec)})
        last == SetMax({PeriodOf(ec[i].timestamp) : i \in 1..Len(ec)})
        balance(p) == FFill(ec, first, p)[1]
        starting == ec[1].balance - ec[1].pnl
    IN  [k \in 1..(last - first + 1) |->
            LET p == first + k - 1
            IN  [timestamp          |-> PeriodStart(p),
                 balance            |-> balance(p),
                 pnl                |-> SumPnl(ec, RowsIn(ec, p)),
                 returns            |-> FMul(FSub(GrowthProd(ec, RowsIn(ec, p)), FInt(1)), FInt(100)),
                 period_returns     |-> IF k = 1 THEN FNaN
                                        ELSE FMul(FSub(FQuot(FInt(balance(p)), FInt(balance(p - 1))),
                                                       FInt(1)), FInt(100)),
                 cumulative_returns |-> FMul(FQuot(FInt(balance(p) - starting), FInt(starting)),
                                             FInt(100))]]

coreVars == <<df, starting_balance, tie_order>>
otherVars == <<dd_series, idx, in_drawdown, current_period, periods, max_dd, avg_dd, uw_time,
               win_streak, loss_streak, streak_dist, dur_stats, ratioVars, logVars, rates,
               callVars>>

ToEquityCurve ==
    /\ pc = "to_equity_curve"
    /\ equity' = Some(to_equity_curve(df, starting_balance))
    /\ pc' = "resample_equity_curve"
    /\ UNCHANGED <<coreVars, otherVars, resampled>>

ResampleEquityCurve ==
    /\ pc = "resample_equity_curve"
    /\ resampled' = Some(resample_equity_curve(equity[1]))
    /\ pc' = "equity_done"
    /\ UNCHANGED <<coreVars, otherVars, equity>>

TradeRows == [timestamp_exit : EqTimes, pnl : EqPnl]

InitEq ==
    /\ df \in SeqsUpTo(TradeRows, MaxTrades)
    /\ starting_balance \in StartingBalances
    /\ tie_order \in TieOrders
    /\ pc = "to_equity_curve"
    /\ dd_series = <<>>
    /\ idx = 0
    /\ in_drawdown = FALSE
    /\ current_period = None
    /\ periods = <<>>
    /\ max_dd = None
    /\ avg_dd = None
    /\ uw_time = None
    /\ win_streak = None
    /\ loss_streak = None
    /\ streak_dist = None
    /\ equity = None
    /\ resampled = None
    /\ dur_stats = None
    /\ recovery = None
    /\ calmar = None
    /\ sharpe = None
    /\ sortino = None
    /\ raw_data = None
    /\ log = None
    /\ rates = None
    /\ heap = <<>>
    /\ refs = None

NextEq ==
    \/ ToEquityCurve
    \/ ResampleEquityCurve

SpecEq == InitEq /\ [][NextEq]_vars

(* -------------------- repeated calls on shared inputs ------------------ *)
(* A caller holds a trade collection, the equity curve built from it and  *)
(* a raw frame, and calls each operation twice on them.  Objects live in  *)
(* heap (an object is its position there); refs holds the caller's        *)
(* references: its inputs, and per operation the objects the calls        *)
(* returned.  A column assignment writes into the object it is applied    *)
(* to, so an operation that takes no copy writes into the caller's frame. *)
MaxShared == 2

(* DataFrame.copy(): a new object with the same content *)
Copy_alias(h, o) == [heap |-> h, ref |-> o]

Copy(h, o) == [heap |-> Append(h, h[o]), ref |-> Len(h) + 1]

(* calculate_drawdown_series on the object o: df = equity_curve.copy(),   *)
(* then peak, drawdown, drawdown_pct and underwater are assigned into df  *)
DrawdownSeriesIn(h, o) ==
    LET c == Copy(h, o)
    IN  [heap |-> [c.heap EXCEPT ![c.ref] = calculate_drawdown_series(c.heap[c.ref])],
         ref |-> c.ref]

(* the loop of identify_drawdown_periods from row i on, with the open     *)
(* episode cp (None when not in a drawdown) and the list built so far     *)
RECURSIVE ScanRows(_, _, _, _)
ScanRows(dd, i, cp, ps) ==
    IF i = Len(dd)
    THEN (IF cp # None THEN Append(ps, OngoingPeriod(cp[1], Len(dd))) ELSE ps)
    ELSE
    LET row == dd[i + 1]
    IN  IF row.underwater /\ cp = None
        THEN ScanRows(dd, i + 1, Some(OpenPeriod(i, row)), ps)
        ELSE IF row.underwater
        THEN ScanRows(dd, i + 1, Some(UpdatePeriod(cp[1], row)), ps)
        ELSE IF cp # None
        THEN ScanRows(dd, i + 1, None, Append(ps, ClosePeriod(cp[1], i, row)))
        ELSE ScanRows(dd, i + 1, None, ps)

(* identify_drawdown_periods, given the drawdown series it computed:      *)
(* periods = [] is a new list in every call                               *)
identify_drawdown_periods(dd) == ScanRows(dd, 0, None, <<>>)

CallToEquityCurve ==
    /\ pc = "call to_equity_curve"
    /\ heap' = Append(heap, to_equity_curve(heap[refs.trades], starting_balance))
    /\ refs' = [refs EXCEPT !.equity = Append(@, Len(heap) + 1)]
    /\ pc' = IF Len(refs.equity) = 1 THEN "call calculate_drawdown_series" ELSE pc
    /\ UNCHANGED <<df, starting_balance, tie_order, eqVars, ratioVars, logVars, dur_stats,
                   rates, ddVars, streakResults>>

CallCalculateDrawdownSeries ==
    /\ pc = "call calculate_drawdown_series"
    /\ LET c == DrawdownSeriesIn(heap, refs.equity[1])
       IN  /\ heap' = c.heap
           /\ refs' = [refs EXCEPT !.drawdown_series = Append(@, c.ref)]
    /\ pc' = IF Len(refs.drawdown_series) = 1 THEN "call identify_drawdown_periods" ELSE pc
    /\ UNCHANGED <<df, starting_balance, tie_order, eqVars, ratioVars, logVars, dur_stats,
                   rates, ddVars, streakResults>>

CallIdentifyDrawdownPeriods ==
    /\ pc = "call identify_drawdown_periods"
    /\ LET c == DrawdownSeriesIn(heap, refs.equity[1])
       IN  /\ heap' = Append(c.heap, identify_drawdown_periods(c.heap[c.ref]))
           /\ refs' = [refs EXCEPT !.periods = Append(@, Len(c.heap) + 1)]
    /\ pc' = IF Len(refs.periods) = 1 THEN "call maximum_drawdown" ELSE pc
    /\ UNCHANGED <<df, starting_balance, tie_order, eqVars, ratioVars, logVars, dur_stats,
                   rates, ddVars, streakResults>>

CallMaximumDrawdown ==
    /\ pc = "call maximum_drawdown"
    /\ LET c == DrawdownSeriesIn(heap, refs.equity[1])
       IN  /\ heap' = Append(c.heap, maximum_drawdown(c.heap[refs.equity[1]]))
           /\ refs' = [refs EXCEPT !.maximum_drawdown = Append(@, Len(c.heap) + 1)]
    /\ pc' = IF Len(refs.maximum_drawdown) = 1 THEN "call streak functions" ELSE pc
    /\ UNCHANGED <<df, starting_balance, tie_order, eqVars, ratioVars, logVars, dur_stats,
                   rates, ddVars, streakResults>>

(* the three streak functions: each sorts into a new frame and assigns    *)
(* nothing                                                                 *)
CallStreakFunctions ==
    /\ pc = "call streak functions"
    /\ LET trades == heap[refs.trades]
       IN  heap' = Append(heap, [longest_win_streak |-> longest_win_streak(trades),
                                 longest_loss_streak |-> longest_loss_streak(trades),
                                 streak_distribution |-> streak_distribution(trades)])
    /\ refs' = [refs EXCEPT !.streaks = Append(@, Len(heap) + 1)]
    /\ pc' = IF Len(refs.streaks) = 1 THEN "calls_done" ELSE pc
    /\ UNCHANGED <<df, starting_balance, tie_order, eqVars, ratioVars, logVars, dur_stats,
                   rates, ddVars, streakResults>>

(* TradeLog(data): self.df = self.raw_data.copy(), the conversions of     *)
(* _load_data are assigned into self.df, then _validate reads it          *)
CallTradeLog ==
    /\ pc = "call TradeLog"
    /\ LET c == Copy(heap, refs.raw)
           loaded == load_data(c.heap[c.ref])
           after == IF loaded.status = "loaded"
                    THEN [c.heap EXCEPT ![c.ref] = loaded.df]
                    ELSE c.heap
           result == IF loaded.status = "loaded" THEN validate(loaded.df) ELSE loaded
       IN  /\ heap' = Append(after, result)
           /\ refs' = [refs EXCEPT !.log = Append(@, Len(after) + 1)]
    /\ pc' = IF Len(refs.log) = 1 THEN "calls_done" ELSE pc
    /\ UNCHANGED <<df, starting_balance, tie_order, eqVars, ratioVars, logVars, dur_stats,
                   rates, ddVars, streakResults>>

InitCalls ==
    /\ \/ /\ df \in SeqsUpTo(TradeRows, MaxShared)
          /\ starting_balance \in StartingBalances
          /\ tie_order \in TieOrders
          /\ raw_data = Some(Frame(RequiredSet, <<>>))
          /\ pc = "call to_equity_curve"
       \/ /\ df = <<>>
          /\ starting_balance = DefaultStartingBalance
          /\ tie_order = "kept"
          /\ raw_data \in {Some(Frame(RequiredSet, rows)) : rows \in SeqsUpTo(LogRows, MaxRows - 1)}
          /\ pc = "call TradeLog"
    /\ heap = <<df, raw_data[1]>>
    /\ refs = [trades |-> 1, raw |-> 2, equity |-> <<>>, drawdown_series |-> <<>>,
               periods |-> <<>>, maximum_drawdown |-> <<>>, streaks |-> <<>>, log |-> <<>>]
    /\ dd_series = <<>>
    /\ idx = 0
    /\ in_drawdown = FALSE
    /\ current_period = None
    /\ periods = <<>>
    /\ max_dd = None
    /\ avg_dd = None
    /\ uw_time = None
    /\ win_streak = None
    /\ loss_streak = None
    /\ streak_dist = None
    /\ equity = None
    /\ resampled = None
    /\ dur_stats = None
    /\ recovery = None
    /\ calmar = None
    /\ sharpe = None
    /\ sortino = None
    /\ log = None
    /\ rates = None

NextCalls ==
    \/ CallToEquityCurve
    \/ CallCalculateDrawdownSeries
    \/ CallIdentifyDrawdownPeriods
    \/ CallMaximumDrawdown
    \/ CallStreakFunctions
    \/ CallTradeLog

SpecCalls == InitCalls /\ [][NextCalls]_vars

(* ======================= properties: drawdown scan ===================== *)
PnlOf(d) == [i \in 1..Len(d) |-> d[i].pnl]
ScanDone == pc \in {"maximum_drawdown", "average_drawdown", "underwater_time",
                    "drawdown_duration_stats", "recovery_factor", "calmar_ratio",
                    "sharpe_ratio", "sortino_ratio", "done"}

(* the drawdown series the scan ran over *)
DD == dd_series
N == Len(DD)
Uw(i) == DD[i + 1].underwater
UnderwaterPoints == {i \in Indices(DD) : Uw(i)}
RunStarts == {i \in UnderwaterPoints : i = 0 \/ ~Uw(i - 1)}
AboveAfter(i) == {j \in Indices(DD) : j > i /\ ~Uw(j)}

(* C1: the returned list has exactly one episode per maximal run of       *)
(* underwater points, in ascending start order; each episode starts at    *)
(* the run's first index with peak_balance = peak[start], and a run that  *)
(* ends inside the data closes at the first later above-water index j     *)
(* with end_idx = j, duration = j - start_idx and recovered = true.       *)
C1_OneEpisodePerRun ==
    ScanDone =>
        /\ Len(periods) = Cardinality(RunStarts)
        /\ \A k \in 1..(Len(periods) - 1) : periods[k].start_idx < periods[k + 1].start_idx
        /\ \A k \in 1..Len(periods) :
              LET p == periods[k]
                  later == AboveAfter(p.start_idx)
              IN  /\ p.start_idx \in RunStarts
                  /\ p.peak_balance = DD[p.start_idx + 1].peak
                  /\ later # {} =>
                        /\ p.end_idx = Some(SetMin(later))
                        /\ p.end_date = Some(DD[SetMin(later) + 1].timestamp)
                        /\ p.duration = SetMin(later) - p.start_idx
                        /\ p.recovered = TRUE

C1_Witness ==
    /\ ScanDone
    /\ PnlOf(df) = <<2, -1, -1, 2>>
    /\ Len(periods) = 1
    /\ periods[1].start_idx = 1
    /\ periods[1].end_idx = Some(3)
    /\ periods[1].duration = 2
    /\ periods[1].recovered

(* C2: a scan that ends underwater appends one last episode with          *)
(* end_idx = None, end_date = None, duration = n - start_idx and          *)
(* recovered = False; at most one episode is unrecovered and it is the    *)
(* last one.                                                               *)
C2_OpenEpisodeLast ==
    ScanDone =>
        /\ \A k \in 1..(Len(periods) - 1) : periods[k].recovered
        /\ (N > 0 /\ Uw(N - 1)) =>
              /\ Len(periods) > 0
              /\ LET p == periods[Len(periods)]
                 IN  /\ p.end_idx = None
                     /\ p.end_date = None
                     /\ p.duration = N - p.start_idx
                     /\ p.recovered = FALSE
        /\ (N = 0 \/ ~Uw(N - 1)) => \A k \in 1..Len(periods) : periods[k].recovered

C2_Witness ==
    /\ ScanDone
    /\ PnlOf(df) = <<-1, -2, -2>>
    /\ Len(periods) = 1
    /\ ~periods[1].recovered
    /\ periods[1].end_idx = None
    /\ periods[1].duration = 2

(* C3: the durations of all returned episodes add up to the number of     *)
(* underwater points, which is what underwater_time reports as            *)
(* underwater_trades.                                                      *)
RECURSIVE SumDuration(_, _)
SumDuration(ps, k) == IF k = 0 THEN 0 ELSE SumDuration(ps, k - 1) + ps[k].duration

C3_DurationsCoverUnderwater ==
    /\ ScanDone => SumDuration(periods, Len(periods)) = Cardinality(UnderwaterPoints)
    /\ pc = "done" => SumDuration(periods, Len(periods)) = uw_time[1].underwater_trades

C3_Witness ==
    /\ pc = "done"
    /\ Len(periods) = 2
    /\ periods[1].recovered
    /\ ~periods[2].recovered
    /\ uw_time[1].underwater_trades = 3

(* C4: inside an episode max_drawdown, max_drawdown_pct and               *)
(* trough_balance change only at an underwater point whose drawdown is    *)
(* strictly below the stored max_drawdown; a finished episode's           *)
(* trough_balance is the least balance over its underwater points,        *)
(* max_drawdown = trough_balance - peak_balance < 0, and the values are   *)
(* those of the earliest point attaining the least balance.               *)
EpisodePoints(p) == p.start_idx..(p.start_idx + p.duration - 1)
EarliestTrough(p) ==
    SetMin({i \in EpisodePoints(p) :
               \A j \in EpisodePoints(p) : DD[i + 1].balance <= DD[j + 1].balance})

C4_TroughOfEpisode ==
    ScanDone =>
        \A k \in 1..Len(periods) :
            LET p == periods[k]
                t == DD[EarliestTrough(p) + 1]
            IN  /\ \A i \in EpisodePoints(p) : Uw(i) /\ p.trough_balance <= DD[i + 1].balance
                /\ p.trough_balance = t.balance
                /\ p.max_drawdown = p.trough_balance - p.peak_balance
                /\ p.max_drawdown < 0
                /\ p.max_drawdown = t.drawdown
                /\ p.max_drawdown_pct = t.drawdown_pct

C4_StrictReplace ==
    (pc = "scan" /\ in_drawdown /\ in_drawdown' /\ current_period' # current_period) =>
        /\ Row.underwater
        /\ Row.drawdown < current_period[1].max_drawdown
        /\ current_period'[1].max_drawdown = Row.drawdown
        /\ current_period'[1].max_drawdown_pct = Row.drawdown_pct
        /\ current_period'[1].trough_balance = Row.balance

C4_StrictlyWorseOnly == [](C4_TroughOfEpisode) /\ [][C4_StrictReplace]_vars

(* an episode whose least balance is attained twice, after a first,       *)
(* shallower point                                                         *)
C4_Witness ==
    /\ ScanDone
    /\ PnlOf(df) = <<1, -1, -1, 1, -1>>
    /\ Len(periods) = 1
    /\ periods[1].duration = 4
    /\ periods[1].max_drawdown = -2
    /\ periods[1].trough_balance = DD[3].balance

(* C5: for every trade sequence and every starting balance (negative and  *)
(* zero included) each drawdown point has underwater = (balance < peak),  *)
(* drawdown_pct <= 0, and drawdown_pct = 0 exactly when it is not         *)
(* underwater.                                                             *)
C5_PctNonPositive ==
    pc # "identify" =>
        \A i \in Indices(dd_series) :
            LET r == dd_series[i + 1]
            IN  /\ r.underwater = (r.balance < r.peak)
                /\ FLe(r.drawdown_pct, FZero)
                /\ FEq(r.drawdown_pct, FZero) <=> ~r.underwater

(* C6: peak[i] is the greatest of balance[0..i], so peak never decreases  *)
(* and is never below the balance; a single-point curve has               *)
(* peak = balance, drawdown = 0 and underwater = false.                   *)
C6_RunningPeak ==
    pc # "identify" =>
        LET ec == EquityCurve IN
        /\ Len(dd_series) = Len(ec)
        /\ \A i \in Indices(dd_series) :
              LET r == dd_series[i + 1]
              IN  /\ r.balance = ec[i + 1].balance
                  /\ r.timestamp = ec[i + 1].timestamp
                  /\ r.peak = SetMax({dd_series[j + 1].balance : j \in 0..i})
                  /\ r.peak >= r.balance
                  /\ i > 0 => dd_series[i].peak <= r.peak
        /\ Len(dd_series) = 1 =>
              /\ dd_series[1].peak = dd_series[1].balance
              /\ dd_series[1].drawdown = 0
              /\ dd_series[1].underwater = FALSE

(* a peak that is older than the previous point *)
C6_Witness ==
    /\ pc = "scan"
    /\ Len(dd_series) = 3
    /\ dd_series[3].peak = dd_series[1].balance
    /\ dd_series[2].balance < dd_series[3].balance
    /\ dd_series[3].balance < dd_series[1].balance

(* C7: maximum_drawdown takes as peak the last point strictly before the  *)
(* trough whose balance equals the trough point's peak, and as recovery   *)
(* the first point at or after the trough whose balance >= that peak;     *)
(* currently_in_drawdown is true and recovery_date and                    *)
(* duration_to_recovery are None exactly when there is no such point.     *)
(* Stated for curves whose balances are all positive.                     *)
(* the curves of the validated domain: every balance is positive *)
PositiveBalances == /\ starting_balance > 0
                    /\ \A i \in Indices(DD) : DD[i + 1].balance > 0

MaxDDDone == pc \in {"average_drawdown", "underwater_time", "drawdown_duration_stats",
                     "recovery_factor", "calmar_ratio", "sharpe_ratio", "sortino_ratio",
                     "done"}

C7_PeakAndRecovery ==
    (MaxDDDone /\ PositiveBalances /\ max_dd[1].status = "ok") =>
        LET r == max_dd[1]
            t == IdxMin(DD)[1]
            peak == DD[t + 1].peak
            before == {i \in Indices(DD) : i < t /\ DD[i + 1].balance = peak}
            after == {i \in Indices(DD) : i >= t /\ DD[i + 1].balance >= peak}
        IN  /\ before # {} =>
                  /\ r.peak_date = Some(DD[SetMax(before) + 1].timestamp)
                  /\ r.duration_to_trough = t - SetMax(before)
            /\ after # {} =>
                  /\ r.recovery_date = Some(DD[SetMin(after) + 1].timestamp)
                  /\ r.currently_in_drawdown = FALSE
            /\ r.currently_in_drawdown <=> after = {}
            /\ r.recovery_date = None <=> after = {}
            /\ r.duration_to_recovery = None <=> after = {}

(* C8: on a non-empty curve with positive balances max_drawdown_pct of    *)
(* maximum_drawdown is the most negative max_drawdown_pct of the          *)
(* episodes, and its amount, peak and trough are those of an episode      *)
(* attaining it; with no episodes it is 0.0 and average_drawdown is 0.0.  *)

C8_MaxIsWorstEpisode ==
    (pc = "done" /\ N > 0 /\ PositiveBalances) =>
        /\ max_dd[1].status = "ok"
        /\ periods # <<>> =>
              /\ \A k \in 1..Len(periods) :
                    FLe(max_dd[1].max_drawdown_pct, periods[k].max_drawdown_pct)
              /\ \E k \in 1..Len(periods) :
                    /\ periods[k].max_drawdown_pct = max_dd[1].max_drawdown_pct
                    /\ periods[k].max_drawdown = max_dd[1].max_drawdown_amount
                    /\ periods[k].peak_balance = max_dd[1].peak_balance
                    /\ periods[k].trough_balance = max_dd[1].trough_balance
        /\ periods = <<>> =>
              /\ max_dd[1].max_drawdown_pct = FZero
              /\ avg_dd[1] = FZero

(* two episodes: the deeper one in percent is the shallower in amount *)
C8_Witness ==
    /\ pc = "done"
    /\ PositiveBalances
    /\ Len(periods) = 2
    /\ periods[2].max_drawdown < periods[1].max_drawdown
    /\ FLt(periods[1].max_drawdown_pct, periods[2].max_drawdown_pct)
    /\ max_dd[1].max_drawdown_pct = periods[1].max_drawdown_pct

(* C15: drawdown_duration_stats reports currently_underwater = true       *)
(* exactly when the last episode is unrecovered, which is exactly when    *)
(* the last point of the drawdown series is underwater; with no episodes  *)
(* it reports false, total_periods = 0 and zero avg, max and median       *)
(* duration.                                                               *)
C15_CurrentlyUnderwater ==
    pc = "done" =>
        LET st == dur_stats[1]
        IN  /\ st.currently_underwater <=>
                  (periods # <<>> /\ ~periods[Len(periods)].recovered)
            /\ st.currently_underwater <=> (N > 0 /\ Uw(N - 1))
            /\ st.total_periods = Len(periods)
            /\ periods = <<>> =>
                  /\ st.currently_underwater = FALSE
                  /\ st.total_periods = 0
                  /\ st.avg_duration = FZero
                  /\ st.max_duration = 0
                  /\ st.median_duration = FZero

(* a recovered episode followed by an open one *)
C15_Witness ==
    /\ pc = "done"
    /\ Len(periods) = 2
    /\ periods[1].recovered
    /\ dur_stats[1].currently_underwater
    /\ Uw(N - 1)

(* ========================= properties: streaks ========================= *)
WithoutBreakeven(d) == SelectSeq(d, IsNonZero)
NonBreakeven == Len(WithoutBreakeven(df))

(* C9: zero-pnl trades are excluded from streak detection: the three      *)
(* streak results equal those computed on the same chronological          *)
(* sequence with every zero-pnl trade removed.                            *)
C9_BreakevenSkipped ==
    pc = "streaks_done" =>
        /\ win_streak[1] = longest_win_streak(WithoutBreakeven(df))
        /\ loss_streak[1] = longest_loss_streak(WithoutBreakeven(df))
        /\ streak_dist[1] = streak_distribution(WithoutBreakeven(df))

(* C10: longest_win_streak + longest_loss_streak never exceeds the number *)
(* of trades with pnl != 0; N trades that all have pnl > 0 give N and 0;  *)
(* an empty or all-breakeven sequence gives 0 and 0.                      *)
C10_StreakBounds ==
    pc = "streaks_done" =>
        /\ win_streak[1] + loss_streak[1] <= NonBreakeven
        /\ (\A i \in 1..Len(df) : df[i].pnl > 0) =>
              (win_streak[1] = Len(df) /\ loss_streak[1] = 0)
        /\ NonBreakeven = 0 => (win_streak[1] = 0 /\ loss_streak[1] = 0)

(* wins and losses separated by a breakeven trade *)
C10_Witness ==
    /\ pc = "streaks_done"
    /\ PnlOf(df) = <<1, 1, 0, -1, 0>>
    /\ win_streak[1] = 2
    /\ loss_streak[1] = 1

(* the maximal same-sign runs of a sign sequence, as <<first, length>> *)
SignsOf(d) == [i \in 1..Len(d) |-> Sign(d[i].pnl)]
Runs(sg) ==
    {r \in (1..Len(sg)) \X (1..Len(sg)) :
        /\ r[1] + r[2] - 1 <= Len(sg)
        /\ \A i \in r[1]..(r[1] + r[2] - 1) : sg[i] = sg[r[1]]
        /\ r[1] = 1 \/ sg[r[1] - 1] # sg[r[1]]
        /\ r[1] + r[2] - 1 = Len(sg) \/ sg[r[1] + r[2]] # sg[r[1]]}
RunCount(sg, v, l) == Cardinality({r \in Runs(sg) : sg[r[1]] = v /\ r[2] = l})

RECURSIVE Weight(_, _)
Weight(dist, k) == IF k = 0 THEN 0 ELSE Weight(dist, k - 1) + dist[k][1] * dist[k][2]

IsRunHistogram(dist, sg, v) ==
    /\ \A k \in 1..(Len(dist) - 1) : dist[k][1] < dist[k + 1][1]
    /\ \A k \in 1..Len(dist) : dist[k][2] > 0 /\ dist[k][2] = RunCount(sg, v, dist[k][1])
    /\ \A l \in 1..Len(sg) :
          RunCount(sg, v, l) > 0 => \E k \in 1..Len(dist) : dist[k][1] = l

(* C11: streak_distribution maps each run length to the number of maximal *)
(* same-sign runs of that length, wins and losses apart, keys ascending;  *)
(* runs split only at sign changes and equal-length runs count            *)
(* separately, so length * count summed over both maps is the number of   *)
(* non-breakeven trades.                                                   *)
C11_RunHistogram ==
    pc = "streaks_done" =>
        LET sg == SignsOf(WithoutBreakeven(SortValues(df)))
            wins == streak_dist[1].wins
            losses == streak_dist[1].losses
        IN  /\ IsRunHistogram(wins, sg, 1)
            /\ IsRunHistogram(losses, sg, -1)
            /\ Weight(wins, Len(wins)) + Weight(losses, Len(losses)) = NonBreakeven

(* ================== properties: equity curve, resampling =============== *)
RECURSIVE SeqSum(_)
SeqSum(q) == IF q = <<>> THEN 0 ELSE q[1] + SeqSum(Tail(q))

EquityBuilt == pc \in {"resample_equity_curve", "equity_done"}

(* C12: to_equity_curve gives one equity point per trade, in exit-time    *)
(* order, with balance[0] = starting_balance + pnl[0] and                 *)
(* balance[i] - balance[i-1] = pnl[i] for i > 0, so the final balance is  *)
(* starting_balance plus the sum of all pnl.                              *)
C12_BalanceIsRunningSum ==
    EquityBuilt =>
        LET e == equity[1]
        IN  /\ Len(e) = Len(df)
            /\ \A i \in 1..(Len(e) - 1) : e[i].timestamp <= e[i + 1].timestamp
            /\ Len(e) > 0 => e[1].balance = starting_balance + e[1].pnl
            /\ \A i \in 2..Len(e) : e[i].balance - e[i - 1].balance = e[i].pnl
            /\ Len(e) > 0 => e[Len(e)].balance = starting_balance + SeqSum(PnlOf(df))

(* three trades given out of exit-time order *)
C12_Witness ==
    /\ EquityBuilt
    /\ df = <<[timestamp_exit |-> 5, pnl |-> 2], [timestamp_exit |-> 0, pnl |-> -1],
              [timestamp_exit |-> 2, pnl |-> 2]>>
    /\ starting_balance = 10
    /\ [i \in 1..3 |-> equity[1][i].balance] = <<9, 11, 13>>

(* C13: the equity curve is a permutation of the input trades in          *)
(* ascending exit time, trades with equal exit time keeping their input   *)
(* order, and the streak functions scan the trades in the same order.     *)
Perms(n) == {f \in [1..n -> 1..n] : \A i, j \in 1..n : f[i] = f[j] => i = j}

C13_StableExitOrder ==
    EquityBuilt =>
        LET e == equity[1]
            n == Len(df)
        IN  /\ Len(e) = n
            /\ \E f \in Perms(n) :
                  /\ \A k \in 1..n : /\ e[k].timestamp = df[f[k]].timestamp_exit
                                     /\ e[k].pnl = df[f[k]].pnl
                  /\ \A k, l \in 1..n :
                        k < l => \/ df[f[k]].timestamp_exit < df[f[l]].timestamp_exit
                                 \/ /\ df[f[k]].timestamp_exit = df[f[l]].timestamp_exit
                                    /\ f[k] < f[l]
            /\ PnlOf(SortValues(df)) = [k \in 1..n |-> e[k].pnl]

(* C19: resample_equity_curve gives one row per period from the first to  *)
(* the last traded period; a period's balance is the balance after its    *)
(* last trade, or the previous period's balance when it has no trade; its *)
(* pnl is the sum of its trades' pnl (0 when none); total pnl is          *)
(* preserved, the last row has the curve's final balance, and an empty    *)
(* curve is returned unchanged.                                            *)
PnlInPeriod(e, p) ==
    LET InP(r) == PeriodOf(r.timestamp) = p
        rows == SelectSeq(e, InP)
    IN  SeqSum([i \in 1..Len(rows) |-> rows[i].pnl])

C19_ResampleByPeriod ==
    pc = "equity_done" =>
        LET e == equity[1]
            r == resampled[1]
            traded == {PeriodOf(e[i].timestamp) : i \in 1..Len(e)}
        IN  IF e = <<>> THEN r = e
            ELSE
            /\ Len(r) = SetMax(traded) - SetMin(traded) + 1
            /\ \A k \in 1..Len(r) :
                  LET p == SetMin(traded) + k - 1
                      InP(x) == PeriodOf(x.timestamp) = p
                      rows == SelectSeq(e, InP)
                  IN  /\ r[k].timestamp = PeriodStart(p)
                      /\ r[k].pnl = PnlInPeriod(e, p)
                      /\ rows # <<>> => r[k].balance = rows[Len(rows)].balance
                      /\ rows = <<>> => (r[k].balance = r[k - 1].balance /\ r[k].pnl = 0)
            /\ SeqSum([k \in 1..Len(r) |-> r[k].pnl]) = SeqSum([i \in 1..Len(e) |-> e[i].pnl])
            /\ r[Len(r)].balance = e[Len(e)].balance

(* two trades in the first period, none in the second, one in the third *)
C19_Witness ==
    /\ pc = "equity_done"
    /\ starting_balance = 10
    /\ Len(equity[1]) = 3
    /\ [i \in 1..3 |-> equity[1][i].timestamp] = <<0, 1, 5>>
    /\ [i \in 1..3 |-> equity[1][i].pnl] = <<2, -1, 2>>
    /\ Len(resampled[1]) = 3
    /\ [k \in 1..3 |-> resampled[1][k].balance] = <<11, 11, 13>>
    /\ [k \in 1..3 |-> resampled[1][k].pnl] = <<1, 0, 2>>

(* ------------------------------- ratios -------------------------------- *)
RatiosDone == pc \in {"sharpe_ratio", "sortino_ratio", "done"}
NetProfit == SeqSum(PnlOf(df))

(* C16: on a non-empty curve recovery_factor and calmar_ratio return      *)
(* without raising and never return negative infinity; recovery_factor is *)
(* net_profit / |max_drawdown_amount| when that amount is non-zero, and   *)
(* +infinity for a positive net profit, 0.0 otherwise, when it is 0;      *)
(* calmar_ratio does the same with max_drawdown_pct and the annualized    *)
(* return.                                                                 *)
C16_RecoveryAndCalmarPolicy ==
    (RatiosDone /\ Len(df) > 0) =>
        /\ recovery[1].status = "ok"
        /\ calmar[1].status = "ok"
        /\ max_dd[1].status = "ok"
        /\ LET amount == Abs(max_dd[1].max_drawdown_amount)
               pct == FAbs(max_dd[1].max_drawdown_pct)
               ec == EquityCurve
               start == starting_balance
               annualized == AnnualizedClass(FQuot(FInt(NetProfit), FInt(start)), Len(ec))
           IN  /\ amount # 0 => recovery[1].value = FDiv(NetProfit, amount)
               /\ amount = 0 => recovery[1].value = (IF NetProfit > 0 THEN FInf ELSE FZero)
               /\ FClass(recovery[1].value) # "-inf"
               /\ FEq(pct, FZero) =>
                      calmar[1].kind = (IF ClassIsPositive(annualized) THEN "+inf" ELSE "0.0")
               /\ ~FEq(pct, FZero) =>
                      /\ calmar[1].kind = "quotient"
                      /\ calmar[1].class = QuotClass(annualized, FClass(pct))
               /\ calmar[1].class # "-inf"

SortinoReturns == ReturnsOf(EquityCurve)
SortinoTarget == IF sortino[1].target_return = None THEN FZero ELSE sortino[1].target_return[1]
NoneBelowTarget == \A i \in 1..Len(SortinoReturns) : ~FLt(SortinoReturns[i], SortinoTarget)

(* C17: sortino_ratio returns 0.0 for an empty curve; when no return is   *)
(* below the target it returns +infinity if the mean return exceeds the   *)
(* target and 0.0 otherwise; it never returns negative infinity.          *)
C17_SortinoNoDownside ==
    pc = "done" =>
        LET r == sortino[1].result
        IN  /\ Len(df) = 0 => r.kind = "0.0"
            /\ (Len(df) > 0 /\ NoneBelowTarget) =>
                  r.kind = (IF SortinoReturns # <<>> /\ FLt(SortinoTarget, FMean(SortinoReturns))
                            THEN "+inf" ELSE "0.0")
            /\ r.class # "-inf"

(* two winning trades, default target: +infinity *)
C17_Witness ==
    /\ pc = "done"
    /\ starting_balance = 10
    /\ PnlOf(df) = <<1, 2>>
    /\ sortino[1].target_return = None
    /\ NoneBelowTarget
    /\ sortino[1].result.kind = "+inf"

(* C18: sharpe_ratio returns 0.0 when the curve is empty or the standard  *)
(* deviation of the returns is exactly 0, and returns a defined number    *)
(* (not NaN) for every non-empty curve, a single-point curve included.    *)
C18_SharpeDefined ==
    (pc \in {"sortino_ratio", "done"} /\ (Len(df) > 0 => PositiveBalances)) =>
        LET r == sharpe[1]
            returns == ReturnsOf(EquityCurve)
        IN  /\ Len(df) = 0 => r.kind = "0.0"
            /\ (Len(returns) > 1 /\ \A i \in 1..Len(returns) : returns[i] = returns[1])
                   => r.kind = "0.0"
            /\ Len(df) > 0 => r.class # "nan"

(* ------------------------- empty trade collection --------------------- *)
(* C14: with an empty trade collection no aggregate function raises and   *)
(* each returns its default: maximum_drawdown returns, average_drawdown   *)
(* is 0.0, drawdown_duration_stats is all zeros with currently_underwater *)
(* False, underwater_time has underwater_pct 0.0,                          *)
(* identify_drawdown_periods is [], the streak functions give 0 and empty *)
(* maps, the three rates are 0.0 and the four ratios are 0.0.             *)
C14_EmptyDefaults ==
    (pc = "done" /\ Len(df) = 0) =>
        /\ max_dd[1].status = "ok"
        /\ avg_dd[1] = FZero
        /\ dur_stats[1] = [avg_duration |-> FZero, max_duration |-> 0,
                           median_duration |-> FZero, total_periods |-> 0,
                           currently_underwater |-> FALSE]
        /\ uw_time[1].underwater_pct = FZero
        /\ periods = <<>>
        /\ longest_win_streak(df) = 0
        /\ longest_loss_streak(df) = 0
        /\ streak_distribution(df) = [wins |-> <<>>, losses |-> <<>>]
        /\ win_rate(df) = FZero
        /\ loss_rate(df) = FZero
        /\ breakeven_rate(df) = FZero
        /\ recovery[1] = [status |-> "ok", value |-> FZero]
        /\ calmar[1].status = "ok"
        /\ calmar[1].kind = "0.0"
        /\ sharpe[1].kind = "0.0"
        /\ sortino[1].result.kind = "0.0"

(* -------------------------------- TradeLog ----------------------------- *)
IsLongOrShort(cell) ==
    /\ cell # None
    /\ Lower(cell[1]) \in {<<"l", "o", "n", "g">>, <<"s", "h", "o", "r", "t">>}

(* a non-empty frame with every required column, no missing value, exit   *)
(* not before entry, positive size and direction long/short in any case   *)
ValidLog(data) ==
    /\ data.kind = "DataFrame"
    /\ data.columns = RequiredSet
    /\ Len(data.rows) > 0
    /\ \A i \in 1..Len(data.rows) :
          LET r == data.rows[i]
          IN  /\ \A c \in RequiredSet : r[c] # None
              /\ r.timestamp_entry[1] # Unparseable
              /\ r.timestamp_exit[1] # Unparseable
              /\ r.timestamp_exit[1] >= r.timestamp_entry[1]
              /\ r.size[1] > 0
              /\ IsLongOrShort(r.direction)

(* C20: constructing a TradeLog from a valid log succeeds, and log.df     *)
(* then holds every input trade, in order, with its direction in          *)
(* lowercase.                                                              *)
C20_ValidLogAccepted ==
    (pc = "log_done" /\ ValidLog(raw_data[1])) =>
        /\ log[1].status = "ok"
        /\ Len(log[1].df.rows) = Len(raw_data[1].rows)
        /\ \A i \in 1..Len(raw_data[1].rows) :
              LET in == raw_data[1].rows[i]
                  out == log[1].df.rows[i]
              IN  /\ out.direction = Some(Lower(in.direction[1]))
                  /\ out.timestamp_entry = in.timestamp_entry
                  /\ out.timestamp_exit = in.timestamp_exit
                  /\ out.size = in.size
                  /\ out.pnl = in.pnl

(* a frame whose timestamp cells all parse, so that _validate is reached *)
Loadable(data) ==
    /\ data.kind = "DataFrame"
    /\ ~ParseFails(data, "timestamp_entry")
    /\ ~ParseFails(data, "timestamp_exit")

(* the first check, in the stated order, that the frame as given fails *)
FirstFailing(data) ==
    IF Len(data.rows) = 0 THEN "empty"
    ELSE IF data.columns # RequiredSet THEN "missing columns"
    ELSE IF \E i \in 1..Len(data.rows), c \in RequiredSet : data.rows[i][c] = None THEN "NaN"
    ELSE IF \E i \in 1..Len(data.rows) :
                data.rows[i].timestamp_exit[1] < data.rows[i].timestamp_entry[1]
    THEN "exit before entry"
    ELSE IF \E i \in 1..Len(data.rows) : ~IsLongOrShort(data.rows[i].direction)
    THEN "direction"
    ELSE IF \E i \in 1..Len(data.rows) : data.rows[i].size[1] <= 0 THEN "size"
    ELSE "none"

(* C21: constructing a TradeLog raises, and returns no object, whenever   *)
(* the log is empty, lacks a required column, has a missing value in a    *)
(* required column, a direction other than long/short, an exit before its *)
(* entry or a size <= 0; the checks run in the order empty, missing       *)
(* columns, NaN, datetime type, exit >= entry, direction, numeric, size,  *)
(* and the error raised is that of the first check that fails.            *)
C21_RejectsInOrder ==
    (pc = "log_done" /\ Loadable(raw_data[1]) /\ FirstFailing(raw_data[1]) # "none") =>
        /\ log[1].status = "raise"
        /\ log[1].error = FirstFailing(raw_data[1])

(* --------------------------------- rates -------------------------------- *)
CountPnl(sign) == Cardinality({i \in 1..Len(df) : Sign(df[i].pnl) = sign})
IsFraction(x, count, total) == x.d > 0 /\ x.n * total = count * x.d

(* C22: for a non-empty trade sequence win_rate, loss_rate and            *)
(* breakeven_rate are the numbers of trades with pnl > 0, pnl < 0 and     *)
(* pnl = 0 divided by the number of trades, and the three sum to 1; for   *)
(* an empty sequence each is 0.0.                                          *)
C22_RatesAreFractions ==
    pc = "streaks_done" =>
        LET r == rates[1]
        IN  IF Len(df) = 0
            THEN r.win_rate = FZero /\ r.loss_rate = FZero /\ r.breakeven_rate = FZero
            ELSE /\ IsFraction(r.win_rate, CountPnl(1), Len(df))
                 /\ IsFraction(r.loss_rate, CountPnl(-1), Len(df))
                 /\ IsFraction(r.breakeven_rate, CountPnl(0), Len(df))
                 /\ FAdd(FAdd(r.win_rate, r.loss_rate), r.breakeven_rate) = FInt(1)

(* three winners and two losers: 3/5 and 2/5 *)
C22_Witness ==
    /\ pc = "streaks_done"
    /\ PnlOf(df) = <<2, -1, 2, 2, -2>>
    /\ rates[1].win_rate = [n |-> 3, d |-> 5]
    /\ rates[1].loss_rate = [n |-> 2, d |-> 5]
    /\ rates[1].breakeven_rate = FZero

(* ------------------------ agreement of the streaks --------------------- *)
LargestKey(dist) == IF dist = <<>> THEN 0 ELSE SetMax({dist[k][1] : k \in 1..Len(dist)})

(* C25: on every trade sequence the largest key of                        *)
(* streak_distribution's 'wins' map is longest_win_streak and the largest *)
(* key of its 'losses' map is longest_loss_streak, an empty map counting  *)
(* as 0.                                                                   *)
C25_StreaksAgree ==
    pc = "streaks_done" =>
        /\ LargestKey(streak_dist[1].wins) = win_streak[1]
        /\ LargestKey(streak_dist[1].losses) = loss_streak[1]

(* ------------------------ the first drawdown point --------------------- *)
OnlyFirstLoses ==
    /\ Len(df) > 0
    /\ df[1].pnl < 0
    /\ \A i \in 2..Len(df) : df[i].pnl >= 0

(* C24: the first drawdown point is never underwater and no episode       *)
(* starts at index 0, whatever the first trade's pnl: the running peak is *)
(* over the balances after each trade and never includes                  *)
(* starting_balance, so a curve whose only losing trade is the first one  *)
(* has no episode and a maximum drawdown of zero.                          *)
C24_FirstPointAbove ==
    ScanDone =>
        /\ N > 0 => (~Uw(0) /\ DD[1].peak = DD[1].balance)
        /\ \A k \in 1..Len(periods) : periods[k].start_idx # 0
        /\ OnlyFirstLoses => periods = <<>>
        /\ (OnlyFirstLoses /\ MaxDDDone) =>
              /\ max_dd[1].status = "ok"
              /\ max_dd[1].max_drawdown_amount = 0
              /\ FEq(max_dd[1].max_drawdown_pct, FZero)

(* ----------------------- inputs are left untouched --------------------- *)
ReturnedBy(name) == refs[name]
Operations == {"equity", "drawdown_series", "periods", "maximum_drawdown", "streaks", "log"}
AllReturned == UNION {{ReturnedBy(name)[k] : k \in 1..Len(ReturnedBy(name))} : name \in Operations}

(* C23: no operation changes what it is given: after any number of calls  *)
(* the caller's trade collection, its equity curve and its raw frame hold *)
(* what they held before (content and row order); the two calls of an     *)
(* operation on the same input return equal results; and every returned   *)
(* object, the episode list included, is a new object, neither an input   *)
(* nor the result of another call.                                         *)
C23_InputsUntouched ==
    /\ heap[refs.trades] = df
    /\ heap[refs.raw] = raw_data[1]
    /\ refs.equity # <<>> =>
          heap[refs.equity[1]] = to_equity_curve(df, starting_balance)
    /\ \A name \in Operations :
          Len(ReturnedBy(name)) = 2 =>
              /\ heap[ReturnedBy(name)[1]] = heap[ReturnedBy(name)[2]]
              /\ ReturnedBy(name)[1] # ReturnedBy(name)[2]
    /\ refs.trades \notin AllReturned
    /\ refs.raw \notin AllReturned
    /\ \A n1, n2 \in Operations :
          n1 # n2 => \A k1 \in 1..Len(refs[n1]), k2 \in 1..Len(refs[n2]) :
                        refs[n1][k1] # refs[n2][k2]

(* both calls of every core operation made on a curve with an episode *)
C23_Witness ==
    /\ pc = "calls_done"
    /\ Len(refs.periods) = 2
    /\ Len(df) = 2
    /\ heap[refs.periods[1]] # <<>>
    /\ heap[refs.periods[2]] = heap[refs.periods[1]]
    /\ Len(heap[refs.drawdown_series[2]]) = 2
    /\ heap[refs.trades] = df

====
